---- MODULE Spec2Model ----
(***************************************************************************)
(* Model of the datamodel renderer: the model field declaration            *)
(* (datamodel/model/field.rs) with its setters, its Display and the        *)
(* adapter from the legacy DML, and the type block                         *)
(* (datamodel/composite_type.rs).                                          *)
(*                                                                         *)
(* Rendered text is a sequence of string tokens; concatenation is \o.      *)
(* Option<T> is a sequence of length at most one: None is <<>>, Some(v) is *)
(* <<v>>.                                                                  *)
(***************************************************************************)
EXTENDS Integers, Sequences, FiniteSets, TLC

VARIABLES
    field,      \* the ModelField under construction
    last,       \* per attribute slot, the argument of the latest setter call
    docLog,     \* the arguments of the documentation calls on field, in order
    arityLog,   \* the arity calls on field: the latest one and the set of those seen
    reset,      \* TRUE once a setter was called on an already populated slot
    dml_field,  \* adapter input: the legacy field record
    uniques,    \* adapter input: the uniques side table
    id_arg,     \* adapter input: the identity definition, if any
    out,        \* adapter output: Option<ModelField>
    ct,         \* the CompositeType under construction
    ctDocLog,   \* the arguments of the documentation calls on ct, in order
    pushLog     \* the fields pushed to ct, in order

vars == <<field, last, docLog, arityLog, reset, dml_field, uniques, id_arg, out,
          ct, ctDocLog, pushLog>>

dmlVars == <<dml_field, uniques, id_arg, out>>
ctVars == <<ct, ctDocLog, pushLog>>

\* Bounds of the model.
MaxDocs == 2
MaxFields == 3

None == <<>>
Some(v) == <<v>>
IsSome(o) == o # <<>>
Unwrap(o) == o[1]

(***************************************************************************)
(* Value primitives (crate::value): Text, Constant, Function,              *)
(* Documentation.                                                          *)
(***************************************************************************)
\* Text renders quoted, Constant renders bare.
Text_new(s) == <<"\"", s, "\"">>
Constant_new_no_validate(s) == <<s>>

\* A parameter is positional (key None) or named.
Param(key, value) == [key |-> key, value |-> value]
ParamRender(p) ==
    (IF IsSome(p.key) THEN <<Unwrap(p.key), ": ">> ELSE <<>>) \o p.value

Function_new(name) == [name |-> name, params |-> <<>>]
Function_push_param(fun, p) == [fun EXCEPT !.params = Append(@, p)]

RECURSIVE JoinParams(_)
JoinParams(ps) ==
    IF ps = <<>> THEN <<>>
    ELSE IF Len(ps) = 1 THEN ParamRender(ps[1])
    ELSE ParamRender(ps[1]) \o <<", ">> \o JoinParams(Tail(ps))

FunctionRender(fun) ==
    <<fun.name>> \o
    (IF fun.params = <<>> THEN <<>> ELSE <<"(">> \o JoinParams(fun.params) \o <<")">>)

\* Documentation is a sequence of lines, each rendered as `/// <text>`.
Documentation_new(doc) == <<doc>>
Documentation_push(docs, doc) == Append(docs, doc)

RECURSIVE DocumentationRender(_)
DocumentationRender(docs) ==
    IF docs = <<>> THEN <<>>
    ELSE <<"/// ", Head(docs), "\n">> \o DocumentationRender(Tail(docs))

(***************************************************************************)
(* FieldAttribute, FieldType and the attribute payloads                    *)
(* (crate::datamodel).                                                     *)
(***************************************************************************)
FieldAttribute_new(fun) == [prefix |-> None, fun |-> fun]
FieldAttribute_push_param(attr, p) ==
    [attr EXCEPT !.fun = Function_push_param(@, p)]
FieldAttribute_prefix(attr, prefix) == [attr EXCEPT !.prefix = Some(prefix)]
FieldAttributeRender(attr) ==
    <<"@">> \o
    (IF IsSome(attr.prefix) THEN <<Unwrap(attr.prefix), ".">> ELSE <<>>) \o
    FunctionRender(attr.fun)

FieldType_required(type_name) ==
    [name |-> type_name, arity |-> "Required", unsupported |-> FALSE]
into_optional(t) == [t EXCEPT !.arity = "Optional"]
into_array(t) == [t EXCEPT !.arity = "List"]
into_unsupported(t) == [t EXCEPT !.unsupported = TRUE]
FieldTypeRender(t) ==
    (IF t.unsupported THEN <<"Unsupported(">> \o Text_new(t.name) \o <<")">>
     ELSE <<t.name>>) \o
    (CASE t.arity = "Optional" -> <<"?">>
       [] t.arity = "List" -> <<"[]">>
       [] OTHER -> <<>>)

\* DefaultValue: `@default("<text>")`.
DefaultValue_text(v) ==
    FieldAttribute_new(Function_push_param(Function_new("default"),
                                           Param(None, Text_new(v))))
\* The legacy default value is a single text value.
DefaultValue_from_dml(dv) == DefaultValue_text(dv.value)
DefaultValueRender(def) == FieldAttributeRender(def)

\* IndexFieldOptions: the four optional options of a unique or id.
IndexFieldOptions(m, s, l, c) ==
    [map |-> m, sort_order |-> s, length |-> l, clustered |-> c]

\* IdFieldDefinition: `@id` with its options.
IdFieldDefinitionRender(definition) ==
    LET f0 == Function_new("id")
        f1 == IF IsSome(definition.map)
              THEN Function_push_param(f0, Param(Some("map"), Text_new(Unwrap(definition.map))))
              ELSE f0
        f2 == IF IsSome(definition.sort_order)
              THEN Function_push_param(f1, Param(Some("sort"), <<Unwrap(definition.sort_order)>>))
              ELSE f1
        f3 == IF IsSome(definition.length)
              THEN Function_push_param(f2, Param(Some("length"), <<Unwrap(definition.length)>>))
              ELSE f2
        f4 == IF IsSome(definition.clustered)
              THEN Function_push_param(f3, Param(Some("clustered"), <<Unwrap(definition.clustered)>>))
              ELSE f3
    IN  FieldAttributeRender(FieldAttribute_new(f4))

RECURSIVE ArrayItems(_)
ArrayItems(xs) ==
    IF xs = <<>> THEN <<>>
    ELSE IF Len(xs) = 1 THEN <<xs[1]>>
    ELSE <<xs[1], ", ">> \o ArrayItems(Tail(xs))
ArrayRender(xs) == <<"[">> \o ArrayItems(xs) \o <<"]">>

\* Relation: the relation descriptor and its builder.
Relation_new ==
    [name |-> None, fields |-> <<>>, references |-> <<>>,
     on_delete |-> None, on_update |-> None, map |-> None]
Relation_name(r, n) == [r EXCEPT !.name = Some(n)]
Relation_fields(r, fs) == [r EXCEPT !.fields = fs]
Relation_references(r, rs) == [r EXCEPT !.references = rs]
Relation_on_delete(r, a) == [r EXCEPT !.on_delete = Some(a)]
Relation_on_update(r, a) == [r EXCEPT !.on_update = Some(a)]
Relation_map(r, m) == [r EXCEPT !.map = Some(m)]
RelationRender(r) ==
    LET f0 == Function_new("relation")
        f1 == IF IsSome(r.name)
              THEN Function_push_param(f0, Param(None, Text_new(Unwrap(r.name))))
              ELSE f0
        f2 == IF r.fields # <<>>
              THEN Function_push_param(f1, Param(Some("fields"), ArrayRender(r.fields)))
              ELSE f1
        f3 == IF r.references # <<>>
              THEN Function_push_param(f2, Param(Some("references"), ArrayRender(r.references)))
              ELSE f2
        f4 == IF IsSome(r.on_delete)
              THEN Function_push_param(f3, Param(Some("onDelete"), <<Unwrap(r.on_delete)>>))
              ELSE f3
        f5 == IF IsSome(r.on_update)
              THEN Function_push_param(f4, Param(Some("onUpdate"), <<Unwrap(r.on_update)>>))
              ELSE f4
        f6 == IF IsSome(r.map)
              THEN Function_push_param(f5, Param(Some("map"), Text_new(Unwrap(r.map))))
              ELSE f5
    IN  FieldAttributeRender(FieldAttribute_new(f6))

(***************************************************************************)
(* ModelField (datamodel/model/field.rs): constructor and setters.         *)
(***************************************************************************)
ModelField_new(name, type_name) ==
    [name |-> name,
     commented_out |-> FALSE,
     type |-> FieldType_required(type_name),
     map |-> None,
     documentation |-> None,
     updated_at |-> None,
     unique |-> None,
     id |-> None,
     default |-> None,
     relation |-> None,
     native_type |-> None,
     ignore |-> None]

optional(self) == [self EXCEPT !.type = into_optional(@)]

\* Faulty variant of array: an optional type stays optional.
array_keeps_optional(self) ==
    [self EXCEPT !.type = IF @.arity = "Optional" THEN @ ELSE into_array(@)]

array(self) == [self EXCEPT !.type = into_array(@)]

unsupported(self) == [self EXCEPT !.type = into_unsupported(@)]

map(self, value) ==
    LET fun == Function_push_param(Function_new("map"), Param(None, Text_new(value)))
    IN  [self EXCEPT !.map = Some(FieldAttribute_new(fun))]

\* Faulty variant of documentation: a later call replaces the earlier lines.
ModelField_documentation_replaces(self, doc) ==
    [self EXCEPT !.documentation = Some(Documentation_new(doc))]

ModelField_documentation(self, doc) ==
    IF IsSome(self.documentation)
    THEN [self EXCEPT !.documentation = Some(Documentation_push(Unwrap(@), doc))]
    ELSE [self EXCEPT !.documentation = Some(Documentation_new(doc))]

default(self, value) == [self EXCEPT !.default = Some(value)]

RECURSIVE PushConstants(_, _)
PushConstants(attr, params) ==
    IF params = <<>> THEN attr
    ELSE PushConstants(
            FieldAttribute_push_param(attr, Param(None, Constant_new_no_validate(Head(params)))),
            Tail(params))

native_type(self, prefix, type, params) ==
    LET nt0 == FieldAttribute_new(Function_new(type))
        nt1 == PushConstants(nt0, params)
        nt2 == FieldAttribute_prefix(nt1, prefix)
    IN  [self EXCEPT !.native_type = Some(nt2)]

updated_at(self) ==
    [self EXCEPT !.updated_at = Some(FieldAttribute_new(Function_new("updatedAt")))]

\* Faulty variant of unique: the clustered option is not passed on.
unique_without_clustered(self, options) ==
    LET f0 == Function_new("unique")
        f1 == IF IsSome(options.map)
              THEN Function_push_param(f0, Param(Some("map"), Text_new(Unwrap(options.map))))
              ELSE f0
        f2 == IF IsSome(options.sort_order)
              THEN Function_push_param(f1, Param(Some("sort"),
                        Constant_new_no_validate(Unwrap(options.sort_order))))
              ELSE f1
        f3 == IF IsSome(options.length)
              THEN Function_push_param(f2, Param(Some("length"),
                        Constant_new_no_validate(Unwrap(options.length))))
              ELSE f2
    IN  [self EXCEPT !.unique = Some(FieldAttribute_new(f3))]

unique(self, options) ==
    LET f0 == Function_new("unique")
        f1 == IF IsSome(options.map)
              THEN Function_push_param(f0, Param(Some("map"), Text_new(Unwrap(options.map))))
              ELSE f0
        f2 == IF IsSome(options.sort_order)
              THEN Function_push_param(f1, Param(Some("sort"),
                        Constant_new_no_validate(Unwrap(options.sort_order))))
              ELSE f1
        f3 == IF IsSome(options.length)
              THEN Function_push_param(f2, Param(Some("length"),
                        Constant_new_no_validate(Unwrap(options.length))))
              ELSE f2
        f4 == IF IsSome(options.clustered)
              THEN Function_push_param(f3, Param(Some("clustered"),
                        Constant_new_no_validate(Unwrap(options.clustered))))
              ELSE f3
    IN  [self EXCEPT !.unique = Some(FieldAttribute_new(f4))]

id(self, definition) == [self EXCEPT !.id = Some(definition)]

relation(self, rel) == [self EXCEPT !.relation = Some(rel)]

ignore(self) ==
    [self EXCEPT !.ignore = Some(FieldAttribute_new(Function_new("ignore")))]

commented_out(self) == [self EXCEPT !.commented_out = TRUE]

(***************************************************************************)
(* impl Display for ModelField.                                            *)
(***************************************************************************)
\* Faulty variant of fmt_declaration: the comment marker is written before the
\* documentation.
fmt_declaration_marker_first(self) ==
    (IF self.commented_out THEN <<"// ">> ELSE <<>>) \o
    (IF IsSome(self.documentation)
     THEN DocumentationRender(Unwrap(self.documentation)) ELSE <<>>) \o
    <<self.name, " ">> \o FieldTypeRender(self.type)

\* Documentation, comment marker, name and type.
fmt_declaration(self) ==
    (IF IsSome(self.documentation)
     THEN DocumentationRender(Unwrap(self.documentation)) ELSE <<>>) \o
    (IF self.commented_out THEN <<"// ">> ELSE <<>>) \o
    <<self.name, " ">> \o FieldTypeRender(self.type)

\* Faulty variant of fmt_attributes: map is written before default.
fmt_attributes_map_first(self) ==
    (IF IsSome(self.updated_at)
     THEN <<" ">> \o FieldAttributeRender(Unwrap(self.updated_at)) ELSE <<>>) \o
    (IF IsSome(self.unique)
     THEN <<" ">> \o FieldAttributeRender(Unwrap(self.unique)) ELSE <<>>) \o
    (IF IsSome(self.id)
     THEN <<" ">> \o IdFieldDefinitionRender(Unwrap(self.id)) ELSE <<>>) \o
    (IF IsSome(self.map)
     THEN <<" ">> \o FieldAttributeRender(Unwrap(self.map)) ELSE <<>>) \o
    (IF IsSome(self.default)
     THEN <<" ">> \o DefaultValueRender(Unwrap(self.default)) ELSE <<>>) \o
    (IF IsSome(self.relation)
     THEN <<" ">> \o RelationRender(Unwrap(self.relation)) ELSE <<>>) \o
    (IF IsSome(self.native_type)
     THEN <<" ">> \o FieldAttributeRender(Unwrap(self.native_type)) ELSE <<>>) \o
    (IF IsSome(self.ignore)
     THEN <<" ">> \o FieldAttributeRender(Unwrap(self.ignore)) ELSE <<>>)

\* The populated attributes.
fmt_attributes(self) ==
    (IF IsSome(self.updated_at)
     THEN <<" ">> \o FieldAttributeRender(Unwrap(self.updated_at)) ELSE <<>>) \o
    (IF IsSome(self.unique)
     THEN <<" ">> \o FieldAttributeRender(Unwrap(self.unique)) ELSE <<>>) \o
    (IF IsSome(self.id)
     THEN <<" ">> \o IdFieldDefinitionRender(Unwrap(self.id)) ELSE <<>>) \o
    (IF IsSome(self.default)
     THEN <<" ">> \o DefaultValueRender(Unwrap(self.default)) ELSE <<>>) \o
    (IF IsSome(self.map)
     THEN <<" ">> \o FieldAttributeRender(Unwrap(self.map)) ELSE <<>>) \o
    (IF IsSome(self.relation)
     THEN <<" ">> \o RelationRender(Unwrap(self.relation)) ELSE <<>>) \o
    (IF IsSome(self.native_type)
     THEN <<" ">> \o FieldAttributeRender(Unwrap(self.native_type)) ELSE <<>>) \o
    (IF IsSome(self.ignore)
     THEN <<" ">> \o FieldAttributeRender(Unwrap(self.ignore)) ELSE <<>>)

ModelField_fmt(self) == fmt_declaration(self) \o fmt_attributes(self)

(***************************************************************************)
(* CompositeTypeField (datamodel/composite_type/field.rs): a field of a    *)
(* type block, rendered as `name type`.                                    *)
(***************************************************************************)
CompositeTypeField_new(name, type_name) ==
    [name |-> name, type |-> FieldType_required(type_name)]
CompositeTypeField_from_dml(datasource, legacy) ==
    LET f0 == CompositeTypeField_new(legacy.name, legacy.type)
    IN  CASE legacy.arity = "Optional" -> [f0 EXCEPT !.type = into_optional(@)]
          [] legacy.arity = "List" -> [f0 EXCEPT !.type = into_array(@)]
          [] OTHER -> f0
CompositeTypeField_fmt(self) == <<self.name, " ">> \o FieldTypeRender(self.type)

(***************************************************************************)
(* CompositeType (datamodel/composite_type.rs): the type block.            *)
(***************************************************************************)
CompositeType_new(name) ==
    [name |-> name, documentation |-> None, fields |-> <<>>]

CompositeType_documentation(self, doc) ==
    [self EXCEPT !.documentation = Some(Documentation_new(doc))]

\* Faulty variant of push_field: the field is put in front.
push_field_front(self, f) == [self EXCEPT !.fields = <<f>> \o @]

push_field(self, f) == [self EXCEPT !.fields = Append(@, f)]

RECURSIVE push_all(_, _, _)
push_all(self, datasource, legacy_fields) ==
    IF legacy_fields = <<>> THEN self
    ELSE push_all(push_field(self, CompositeTypeField_from_dml(datasource, Head(legacy_fields))),
                  datasource, Tail(legacy_fields))

CompositeType_from_dml(datasource, dml_ct) ==
    push_all(CompositeType_new(dml_ct.name), datasource, dml_ct.fields)

RECURSIVE fmt_fields(_)
fmt_fields(fs) ==
    IF fs = <<>> THEN <<>>
    ELSE CompositeTypeField_fmt(Head(fs)) \o <<"\n">> \o fmt_fields(Tail(fs))

CompositeType_fmt(self) ==
    (IF IsSome(self.documentation)
     THEN DocumentationRender(Unwrap(self.documentation)) ELSE <<>>) \o
    <<"type ", self.name, " {", "\n">> \o
    fmt_fields(self.fields) \o
    <<"}", "\n">>

(***************************************************************************)
(* ModelField::from_dml: the adapter from the legacy DML field.            *)
(***************************************************************************)
\* HashMap::get.
HashMap_get(table, key) ==
    IF key \in DOMAIN table THEN Some(table[key]) ELSE None

\* Faulty variant of has_relation: a name and a field or reference list are both
\* required.
has_relation_conjunctive(dml_info) ==
    dml_info.name # "" /\ (dml_info.fields # <<>> \/ dml_info.references # <<>>)

\* The `if` that guards the construction of the relation.
has_relation(dml_info) ==
    dml_info.name # "" \/ (dml_info.fields # <<>> \/ dml_info.references # <<>>)

\* The relation attribute of a legacy relation field, if any.
relation_of_dml(dml_info) ==
    LET relation_name == dml_info.name
    IN  IF has_relation(dml_info)
        THEN LET r0 == Relation_new
                 r1 == IF relation_name # "" THEN Relation_name(r0, relation_name) ELSE r0
                 r2 == Relation_fields(r1, dml_info.fields)
                 r3 == Relation_references(r2, dml_info.references)
                 r4 == IF IsSome(dml_info.on_delete)
                       THEN Relation_on_delete(r3, Unwrap(dml_info.on_delete)) ELSE r3
                 r5 == IF IsSome(dml_info.on_update)
                       THEN Relation_on_update(r4, Unwrap(dml_info.on_update)) ELSE r4
                 r6 == IF IsSome(dml_info.fk_name)
                       THEN Relation_map(r5, Unwrap(dml_info.fk_name)) ELSE r5
             IN  Some(r6)
        ELSE None

from_dml_scalar(datasource, sf, uniques_table, id_definition) ==
    LET nt == IF sf.field_type.tag = "Scalar" THEN sf.field_type.native_type ELSE None
        f0 == ModelField_new(sf.name, sf.field_type.name)
        f1 == CASE sf.arity = "Optional" -> optional(f0)
                [] sf.arity = "List" -> array(f0)
                [] OTHER -> f0
        f2 == IF sf.field_type.tag = "Unsupported" THEN unsupported(f1) ELSE f1
        f3 == IF IsSome(sf.documentation)
              THEN ModelField_documentation(f2, Unwrap(sf.documentation)) ELSE f2
        f4 == IF IsSome(sf.default_value)
              THEN default(f3, DefaultValue_from_dml(Unwrap(sf.default_value))) ELSE f3
        f5 == IF IsSome(nt)
              THEN native_type(f4, datasource.name, Unwrap(nt).name, Unwrap(nt).args) ELSE f4
        f6 == IF sf.is_updated_at THEN updated_at(f5) ELSE f5
        f7 == IF IsSome(HashMap_get(uniques_table, sf.name))
              THEN unique(f6, Unwrap(HashMap_get(uniques_table, sf.name))) ELSE f6
        f8 == IF sf.is_ignored THEN ignore(f7) ELSE f7
        f9 == IF sf.is_commented_out THEN commented_out(f8) ELSE f8
        f10 == IF IsSome(sf.database_name) THEN map(f9, Unwrap(sf.database_name)) ELSE f9
        f11 == IF IsSome(id_definition) THEN id(f10, Unwrap(id_definition)) ELSE f10
    IN  f11

\* Faulty variant of from_dml_relation: the identity definition is attached.
from_dml_relation_with_id(datasource, rf, uniques_table, id_definition) ==
    LET f0 == ModelField_new(rf.name, rf.relation_info.referenced_model)
        f1 == CASE rf.arity = "Optional" -> optional(f0)
                [] rf.arity = "List" -> array(f0)
                [] OTHER -> f0
        f2 == IF IsSome(rf.documentation)
              THEN ModelField_documentation(f1, Unwrap(rf.documentation)) ELSE f1
        f3 == IF rf.is_ignored THEN ignore(f2) ELSE f2
        rel == relation_of_dml(rf.relation_info)
        f4 == IF IsSome(rel) THEN relation(f3, Unwrap(rel)) ELSE f3
        f5 == IF IsSome(id_definition) THEN id(f4, Unwrap(id_definition)) ELSE f4
    IN  f5

from_dml_relation(datasource, rf, uniques_table, id_definition) ==
    LET f0 == ModelField_new(rf.name, rf.relation_info.referenced_model)
        f1 == CASE rf.arity = "Optional" -> optional(f0)
                [] rf.arity = "List" -> array(f0)
                [] OTHER -> f0
        f2 == IF IsSome(rf.documentation)
              THEN ModelField_documentation(f1, Unwrap(rf.documentation)) ELSE f1
        f3 == IF rf.is_ignored THEN ignore(f2) ELSE f2
        rel == relation_of_dml(rf.relation_info)
        f4 == IF IsSome(rel) THEN relation(f3, Unwrap(rel)) ELSE f3
    IN  f4

\* Faulty variant of from_dml_composite: the default value is not passed on.
from_dml_composite_without_default(datasource, cf, uniques_table, id_definition) ==
    LET f0 == ModelField_new(cf.name, cf.composite_type)
        f1 == CASE cf.arity = "Optional" -> optional(f0)
                [] cf.arity = "List" -> array(f0)
                [] OTHER -> f0
        f2 == IF IsSome(cf.documentation)
              THEN ModelField_documentation(f1, Unwrap(cf.documentation)) ELSE f1
        f3 == IF IsSome(cf.database_name) THEN map(f2, Unwrap(cf.database_name)) ELSE f2
        f4 == IF cf.is_commented_out THEN commented_out(f3) ELSE f3
        f5 == IF cf.is_ignored THEN ignore(f4) ELSE f4
    IN  f5

from_dml_composite(datasource, cf, uniques_table, id_definition) ==
    LET f0 == ModelField_new(cf.name, cf.composite_type)
        f1 == CASE cf.arity = "Optional" -> optional(f0)
                [] cf.arity = "List" -> array(f0)
                [] OTHER -> f0
        f2 == IF IsSome(cf.documentation)
              THEN ModelField_documentation(f1, Unwrap(cf.documentation)) ELSE f1
        f3 == IF IsSome(cf.database_name) THEN map(f2, Unwrap(cf.database_name)) ELSE f2
        f4 == IF cf.is_commented_out THEN commented_out(f3) ELSE f3
        f5 == IF cf.is_ignored THEN ignore(f4) ELSE f4
        f6 == IF IsSome(cf.default_value)
              THEN default(f5, DefaultValue_from_dml(Unwrap(cf.default_value))) ELSE f5
    IN  f6

ModelField_from_dml(datasource, legacy, uniques_table, id_definition) ==
    CASE legacy.kind = "ScalarField" ->
            from_dml_scalar(datasource, legacy, uniques_table, id_definition)
      [] legacy.kind = "RelationField" ->
            from_dml_relation(datasource, legacy, uniques_table, id_definition)
      [] legacy.kind = "CompositeField" ->
            from_dml_composite(datasource, legacy, uniques_table, id_definition)

(***************************************************************************)
(* The legacy DML records the adapter reads (psl::dml).                    *)
(***************************************************************************)
Datasource == [name |-> "db"]
FieldNames == {"a", "b"}
FieldArity == {"Required", "Optional", "List"}
OptionOf(S) == {None} \cup {Some(x) : x \in S}
DmlDefaultValues == {[value |-> "x"]}
DmlNativeTypes == {[name |-> "VarChar", args |-> <<"255">>]}
DmlFieldTypes ==
    {[tag |-> t, name |-> "T", native_type |-> None] :
        t \in {"Enum", "Relation", "Unsupported", "Scalar", "CompositeType"}}
    \cup {[tag |-> "Scalar", name |-> "T", native_type |-> Some(n)] : n \in DmlNativeTypes}

ScalarFields ==
    [kind : {"ScalarField"}, name : FieldNames, field_type : DmlFieldTypes,
     arity : FieldArity, documentation : OptionOf({"d1"}),
     default_value : OptionOf(DmlDefaultValues), is_updated_at : BOOLEAN,
     is_ignored : BOOLEAN, is_commented_out : BOOLEAN,
     database_name : OptionOf({"m1"})]

FieldLists == {<<>>, <<"x">>, <<"x", "y">>}
RelationInfos ==
    [referenced_model : {"T"}, name : {"", "R"}, fields : FieldLists,
     references : FieldLists, on_delete : OptionOf({"Cascade"}),
     on_update : OptionOf({"NoAction"}), fk_name : OptionOf({"fk"})]

RelationFields ==
    [kind : {"RelationField"}, name : FieldNames, relation_info : RelationInfos,
     arity : FieldArity, documentation : OptionOf({"d1"}), is_ignored : BOOLEAN]

CompositeFields ==
    [kind : {"CompositeField"}, name : FieldNames, composite_type : {"T"},
     arity : FieldArity, documentation : OptionOf({"d1"}),
     database_name : OptionOf({"m1"}), is_commented_out : BOOLEAN,
     is_ignored : BOOLEAN, default_value : OptionOf(DmlDefaultValues)]

DmlFields == ScalarFields \cup RelationFields \cup CompositeFields

(***************************************************************************)
(* Argument domains of the builder calls.                                  *)
(***************************************************************************)
MapNames == {"m1", "m2"}
DocLines == {"d1", "d2"}
DefaultValues == {DefaultValue_text("x"), DefaultValue_text("y")}
NativeTypes == {<<"db", "VarChar", <<"255">>>>, <<"db", "Decimal", <<"10", "2">>>>}
UniqueOptions ==
    {IndexFieldOptions(None, Some("Desc"), None, None),
     IndexFieldOptions(Some("ux"), Some("Asc"), Some("11"), Some("false"))}
IdFieldDefinitions ==
    {IndexFieldOptions(None, None, None, None),
     IndexFieldOptions(Some("pk"), None, None, Some("true"))}
Relations ==
    {Relation_name(Relation_new, "R"),
     Relation_on_delete(
        Relation_references(Relation_fields(Relation_new, <<"x">>), <<"y">>),
        "Cascade")}

\* The uniques side tables: field name to unique options.
UniquesTables ==
    {f \in UNION {[D -> UniqueOptions] : D \in SUBSET FieldNames} :
        \A n \in DOMAIN f : n = "b" => f[n] = IndexFieldOptions(None, Some("Desc"), None, None)}

Slots == <<"updated_at", "unique", "id", "default", "map", "relation",
           "native_type", "ignore">>

NoCalls ==
    [updated_at |-> None, unique |-> None, id |-> None, default |-> None,
     map |-> None, relation |-> None, native_type |-> None, ignore |-> None]

(***************************************************************************)
(* Specification of the builder: any sequence of setter calls on one       *)
(* ModelField.                                                             *)
(***************************************************************************)
InitIdle ==
    /\ dml_field = [kind |-> "none"]
    /\ uniques = [n \in {} |-> None]
    /\ id_arg = None
    /\ out = None

InitNoType ==
    /\ ct = CompositeType_new("Address")
    /\ ctDocLog = <<>>
    /\ pushLog = <<>>

InitNoField ==
    /\ field = ModelField_new("street", "String")
    /\ last = NoCalls
    /\ docLog = <<>>
    /\ arityLog = [last |-> "none", seen |-> {}]
    /\ reset = FALSE

Init == InitNoField /\ InitIdle /\ InitNoType

CallOptional ==
    /\ field' = optional(field)
    /\ arityLog' = [last |-> "optional", seen |-> arityLog.seen \cup {"optional"}]
    /\ UNCHANGED <<last, docLog, reset, dmlVars, ctVars>>

CallArray ==
    /\ field' = array(field)
    /\ arityLog' = [last |-> "array", seen |-> arityLog.seen \cup {"array"}]
    /\ UNCHANGED <<last, docLog, reset, dmlVars, ctVars>>

CallUnsupported ==
    /\ field' = unsupported(field)
    /\ UNCHANGED <<last, docLog, arityLog, reset, dmlVars, ctVars>>

CallMap ==
    \E value \in MapNames :
        /\ field' = map(field, value)
        /\ last' = [last EXCEPT !.map = Some(value)]
        /\ reset' = (reset \/ IsSome(last.map))
        /\ UNCHANGED <<docLog, arityLog, dmlVars, ctVars>>

CallDocumentation ==
    \E doc \in DocLines :
        /\ Len(docLog) < MaxDocs
        /\ field' = ModelField_documentation(field, doc)
        /\ docLog' = Append(docLog, doc)
        /\ UNCHANGED <<last, arityLog, reset, dmlVars, ctVars>>

CallDefault ==
    \E value \in DefaultValues :
        /\ field' = default(field, value)
        /\ last' = [last EXCEPT !.default = Some(value)]
        /\ reset' = (reset \/ IsSome(last.default))
        /\ UNCHANGED <<docLog, arityLog, dmlVars, ctVars>>

CallNativeType ==
    \E nt \in NativeTypes :
        /\ field' = native_type(field, nt[1], nt[2], nt[3])
        /\ last' = [last EXCEPT !.native_type = Some(nt)]
        /\ reset' = (reset \/ IsSome(last.native_type))
        /\ UNCHANGED <<docLog, arityLog, dmlVars, ctVars>>

CallUpdatedAt ==
    /\ field' = updated_at(field)
    /\ last' = [last EXCEPT !.updated_at = Some(TRUE)]
    /\ reset' = (reset \/ IsSome(last.updated_at))
    /\ UNCHANGED <<docLog, arityLog, dmlVars, ctVars>>

CallUnique ==
    \E options \in UniqueOptions :
        /\ field' = unique(field, options)
        /\ last' = [last EXCEPT !.unique = Some(options)]
        /\ reset' = (reset \/ IsSome(last.unique))
        /\ UNCHANGED <<docLog, arityLog, dmlVars, ctVars>>

CallId ==
    \E definition \in IdFieldDefinitions :
        /\ field' = id(field, definition)
        /\ last' = [last EXCEPT !.id = Some(definition)]
        /\ reset' = (reset \/ IsSome(last.id))
        /\ UNCHANGED <<docLog, arityLog, dmlVars, ctVars>>

CallRelation ==
    \E rel \in Relations :
        /\ field' = relation(field, rel)
        /\ last' = [last EXCEPT !.relation = Some(rel)]
        /\ reset' = (reset \/ IsSome(last.relation))
        /\ UNCHANGED <<docLog, arityLog, dmlVars, ctVars>>

CallIgnore ==
    /\ field' = ignore(field)
    /\ last' = [last EXCEPT !.ignore = Some(TRUE)]
    /\ reset' = (reset \/ IsSome(last.ignore))
    /\ UNCHANGED <<docLog, arityLog, dmlVars, ctVars>>

CallCommentedOut ==
    /\ field' = commented_out(field)
    /\ UNCHANGED <<last, docLog, arityLog, reset, dmlVars, ctVars>>

\* The attribute slots: every slot setter, documentation, unsupported and
\* commented_out, in any order.
Next ==
    \/ CallUnsupported
    \/ CallMap
    \/ CallDocumentation
    \/ CallDefault
    \/ CallNativeType
    \/ CallUpdatedAt
    \/ CallUnique
    \/ CallId
    \/ CallRelation
    \/ CallIgnore
    \/ CallCommentedOut

Spec == Init /\ [][Next]_vars

(***************************************************************************)
(* Specification of the adapter: one from_dml call on any legacy field,    *)
(* uniques table and identity definition.                                  *)
(***************************************************************************)
InitDml ==
    /\ dml_field \in DmlFields
    /\ uniques \in UniquesTables
    /\ id_arg \in OptionOf(IdFieldDefinitions)
    /\ out = None
    /\ InitNoField
    /\ InitNoType

FromDml ==
    /\ out = None
    /\ out' = Some(ModelField_from_dml(Datasource, dml_field, uniques, id_arg))
    /\ UNCHANGED <<dml_field, uniques, id_arg, field, last, docLog, arityLog, reset, ctVars>>

NextDml == FromDml

SpecDml == InitDml /\ [][NextDml]_vars

\* The type modifiers: optional, array and unsupported in any order, next to
\* documentation, two attribute setters and commented_out.
NextType ==
    \/ CallOptional
    \/ CallArray
    \/ CallUnsupported
    \/ CallDocumentation
    \/ CallMap
    \/ CallIgnore
    \/ CallCommentedOut

SpecType == Init /\ [][NextType]_vars

(***************************************************************************)
(* Specification of the type block: documentation and push_field calls in  *)
(* any order, or a construction from the legacy composite type.            *)
(***************************************************************************)
TypeNames == {"Address", "Geo"}
CompositeTypeFields ==
    {CompositeTypeField_new("Street", "String"),
     CompositeTypeField_new("Number", "Int"),
     [CompositeTypeField_new("Other", "String") EXCEPT !.type = into_array(@)]}
DmlCompositeTypeFields ==
    {[name |-> "Street", type |-> "String", arity |-> "Optional"],
     [name |-> "Number", type |-> "Int", arity |-> "Required"]}
SeqsUpTo(S, n) == UNION {[1..k -> S] : k \in 0..n}
DmlCompositeTypes ==
    [name : TypeNames, fields : SeqsUpTo(DmlCompositeTypeFields, MaxFields)]

InitType ==
    /\ ct = CompositeType_new("Address")
    /\ ctDocLog = <<>>
    /\ pushLog = <<>>
    /\ InitNoField
    /\ InitIdle

CallTypeDocumentation ==
    \E doc \in DocLines :
        /\ Len(ctDocLog) < MaxDocs
        /\ ct' = CompositeType_documentation(ct, doc)
        /\ ctDocLog' = Append(ctDocLog, doc)
        /\ UNCHANGED <<pushLog, field, last, docLog, arityLog, reset, dmlVars>>

CallPushField ==
    \E f \in CompositeTypeFields :
        /\ Len(pushLog) < MaxFields
        /\ ct' = push_field(ct, f)
        /\ pushLog' = Append(pushLog, f)
        /\ UNCHANGED <<ctDocLog, field, last, docLog, arityLog, reset, dmlVars>>

CallTypeFromDml ==
    \E dml_ct \in DmlCompositeTypes :
        /\ ct = CompositeType_new("Address")
        /\ ct' = CompositeType_from_dml(Datasource, dml_ct)
        /\ ctDocLog' = <<>>
        /\ pushLog' = [i \in 1..Len(dml_ct.fields) |->
                          CompositeTypeField_from_dml(Datasource, dml_ct.fields[i])]
        /\ UNCHANGED <<field, last, docLog, arityLog, reset, dmlVars>>

NextCompositeType ==
    \/ CallTypeDocumentation
    \/ CallPushField
    \/ CallTypeFromDml

SpecCompositeType == InitType /\ [][NextCompositeType]_vars

(***************************************************************************)
(* Helpers of the properties.                                              *)
(***************************************************************************)
Count(text, tok) == Cardinality({i \in 1..Len(text) : text[i] = tok})

\* The token after every `@`, in order of appearance.
RECURSIVE AttrHeads(_)
AttrHeads(text) ==
    IF Len(text) < 2 THEN <<>>
    ELSE IF Head(text) = "@" THEN <<text[2]>> \o AttrHeads(Tail(text))
    ELSE AttrHeads(Tail(text))

\* The first token each slot's attribute renders after its `@`.
SlotHead ==
    [updated_at |-> "updatedAt", unique |-> "unique", id |-> "id",
     default |-> "default", map |-> "map", relation |-> "relation",
     native_type |-> "db", ignore |-> "ignore"]

RECURSIVE HeadsFrom(_, _)
HeadsFrom(calls, i) ==
    IF i > Len(Slots) THEN <<>>
    ELSE (IF IsSome(calls[Slots[i]]) THEN <<SlotHead[Slots[i]]>> ELSE <<>>)
         \o HeadsFrom(calls, i + 1)

Populated(calls) == {i \in 1..Len(Slots) : IsSome(calls[Slots[i]])}

\* text is sub somewhere inside.
Contains(text, sub) ==
    \E i \in 0..(Len(text) - Len(sub)) :
        \A j \in 1..Len(sub) : text[i + j] = sub[j]

\* text with the comment marker inserted after its documentation lines.
WithMarker(text) ==
    LET n == 3 * Count(text, "/// ")
    IN  SubSeq(text, 1, n) \o <<"// ">> \o SubSeq(text, n + 1, Len(text))

(***************************************************************************)
(* Properties of the builder.                                              *)
(***************************************************************************)
\* C1: whatever the order of the setter calls, the declaration lists exactly
\* the populated attributes in the order updatedAt, unique, id, default, map,
\* relation, native type, ignore, each preceded by exactly one space, nothing
\* for an absent slot and no trailing separator.
C1_AttributeOrder ==
    LET r == ModelField_fmt(field)
    IN  /\ AttrHeads(r) = HeadsFrom(last, 1)
        /\ \A i \in 1..Len(r) : r[i] = "@" => (i > 1 /\ r[i - 1] = " ")
        /\ Count(r, " ") = 1 + Cardinality(Populated(last))
        /\ r[Len(r)] # " "

\* All eight slots are populated.
C1_Witness == Cardinality(Populated(last)) = 8

\* The value a slot holds after one call of its setter on a fresh field.
Fresh == ModelField_new("street", "String")
SlotAfter(slot, arg) ==
    CASE slot = "updated_at" -> updated_at(Fresh).updated_at
      [] slot = "unique" -> unique(Fresh, arg).unique
      [] slot = "id" -> id(Fresh, arg).id
      [] slot = "default" -> default(Fresh, arg).default
      [] slot = "map" -> map(Fresh, arg).map
      [] slot = "relation" -> relation(Fresh, arg).relation
      [] slot = "native_type" -> native_type(Fresh, arg[1], arg[2], arg[3]).native_type
      [] slot = "ignore" -> ignore(Fresh).ignore

\* C4: every attribute slot holds nothing if its setter was never called and
\* otherwise exactly the value of the latest call, one attribute is rendered
\* per populated slot, and the documentation holds the lines of all calls in
\* call order.
C4_OverwriteAndAppend ==
    /\ \A i \in 1..Len(Slots) :
          LET slot == Slots[i]
          IN  IF IsSome(last[slot])
              THEN field[slot] = SlotAfter(slot, Unwrap(last[slot]))
              ELSE field[slot] = None
    /\ Count(ModelField_fmt(field), "@") = Cardinality(Populated(last))
    /\ field.documentation = (IF docLog = <<>> THEN None ELSE Some(docLog))
    /\ SubSeq(ModelField_fmt(field), 1, 3 * Len(docLog)) = DocumentationRender(docLog)

\* A populated slot was set again, and documentation was called twice.
C4_Witness ==
    /\ reset
    /\ Len(docLog) >= 2
    /\ last.map = Some("m2")
    /\ Cardinality(Populated(last)) = 8

\* C7: the type holds the arity of the latest arity call and renders its
\* suffix once: `?` after optional(), `[]` after array(), none before any call.
C7_ArityLastCall ==
    LET r == ModelField_fmt(field)
    IN  /\ field.type.arity =
              (CASE arityLog.last = "optional" -> "Optional"
                 [] arityLog.last = "array" -> "List"
                 [] OTHER -> "Required")
        /\ Count(r, "?") = (IF arityLog.last = "optional" THEN 1 ELSE 0)
        /\ Count(r, "[]") = (IF arityLog.last = "array" THEN 1 ELSE 0)

\* Both optional() and array() were called, array() last.
C7_Witness ==
    /\ arityLog.seen = {"optional", "array"}
    /\ arityLog.last = "array"
    /\ field.type.unsupported

\* C8: a call of commented_out() changes the rendering only by inserting the
\* marker `// ` after the documentation lines, before `name type`.
C8_CommentedOutTransparent ==
    [][(~field.commented_out /\ field'.commented_out)
        => ModelField_fmt(field') = WithMarker(ModelField_fmt(field))]_vars

\* A commented-out field with documentation and all eight slots populated.
C8_Witness ==
    /\ field.commented_out
    /\ docLog # <<>>
    /\ Cardinality(Populated(last)) = 8

(***************************************************************************)
(* Properties of the adapter.                                              *)
(***************************************************************************)
Rendered == ModelField_fmt(Unwrap(out))

AttachesRelation(dml_info) ==
    dml_info.name # "" \/ dml_info.fields # <<>> \/ dml_info.references # <<>>

\* The properties all three kinds carry: arity and documentation.
CommonRendered(legacy, r) ==
    /\ legacy.arity = "Optional" => Count(r, "?") = 1
    /\ legacy.arity = "List" => Count(r, "[]") = 1
    /\ IsSome(legacy.documentation) =>
            Contains(r, <<"/// ", Unwrap(legacy.documentation), "\n">>)

MapRendered(name, r) ==
    IsSome(name) => Contains(r, <<" ", "@", "map", "(", "\"", Unwrap(name), "\"", ")">>)

DefaultRendered(dv, r) ==
    IsSome(dv) => Contains(r, <<" ", "@", "default", "(", "\"", Unwrap(dv).value, "\"", ")">>)

ScalarRendered(sf, r) ==
    /\ CommonRendered(sf, r)
    /\ sf.field_type.tag = "Unsupported" => Contains(r, <<"Unsupported(">>)
    /\ DefaultRendered(sf.default_value, r)
    /\ IsSome(sf.field_type.native_type) =>
            Contains(r, <<" ", "@", "db", ".", Unwrap(sf.field_type.native_type).name, "(">>
                        \o ArrayItems(Unwrap(sf.field_type.native_type).args) \o <<")">>)
    /\ sf.is_updated_at => Contains(r, <<" ", "@", "updatedAt">>)
    /\ sf.is_ignored => Contains(r, <<" ", "@", "ignore">>)
    /\ sf.is_commented_out => Count(r, "// ") = 1
    /\ MapRendered(sf.database_name, r)

\* Name, local fields and referenced fields of the relation.
RelationRendered(rf, r) ==
    LET info == rf.relation_info
    IN  /\ CommonRendered(rf, r)
        /\ rf.is_ignored => Contains(r, <<" ", "@", "ignore">>)
        /\ info.name # "" => Contains(r, <<" ", "@", "relation", "(", "\"", info.name, "\"">>)
        /\ info.fields # <<>> => Contains(r, <<"fields", ": ">> \o ArrayRender(info.fields))
        /\ info.references # <<>> =>
                Contains(r, <<"references", ": ">> \o ArrayRender(info.references))

\* onDelete, onUpdate and the foreign-key map name of the relation.
RelationExtrasRendered(rf, r) ==
    LET info == rf.relation_info
    IN  /\ IsSome(info.on_delete) => Contains(r, <<"onDelete", ": ", Unwrap(info.on_delete)>>)
        /\ IsSome(info.on_update) => Contains(r, <<"onUpdate", ": ", Unwrap(info.on_update)>>)
        /\ IsSome(info.fk_name) =>
                Contains(r, <<"map", ": ", "\"", Unwrap(info.fk_name), "\"">>)

CompositeRendered(cf, r) ==
    /\ CommonRendered(cf, r)
    /\ MapRendered(cf.database_name, r)
    /\ cf.is_commented_out => Count(r, "// ") = 1
    /\ cf.is_ignored => Contains(r, <<" ", "@", "ignore">>)
    /\ DefaultRendered(cf.default_value, r)

C5_EmptyRelationSuppressed ==
    (IsSome(out) /\ dml_field.kind = "RelationField") =>
        /\ IsSome(Unwrap(out).relation) <=> AttachesRelation(dml_field.relation_info)
        /\ Count(Rendered, "relation") =
                (IF AttachesRelation(dml_field.relation_info) THEN 1 ELSE 0)

\* An anonymous relation without fields or references, but with onDelete,
\* onUpdate and a foreign-key map name, was converted.
C5_Witness ==
    /\ IsSome(out)
    /\ dml_field.kind = "RelationField"
    /\ ~AttachesRelation(dml_field.relation_info)
    /\ IsSome(dml_field.relation_info.on_delete)
    /\ IsSome(dml_field.relation_info.on_update)
    /\ IsSome(dml_field.relation_info.fk_name)

\* The text of `@unique` with exactly the given options.
RECURSIVE OptionTexts(_, _)
OptionTexts(options, keys) ==
    IF keys = <<>> THEN <<>>
    ELSE LET k == Head(keys)
             rest == OptionTexts(options, Tail(keys))
         IN  IF IsSome(options[k[1]])
             THEN <<(<<k[2], ": ">> \o
                     (IF k[1] = "map" THEN <<"\"", Unwrap(options[k[1]]), "\"">>
                      ELSE <<Unwrap(options[k[1]])>>))>> \o rest
             ELSE rest
RECURSIVE JoinTexts(_)
JoinTexts(ts) ==
    IF ts = <<>> THEN <<>>
    ELSE IF Len(ts) = 1 THEN ts[1]
    ELSE ts[1] \o <<", ">> \o JoinTexts(Tail(ts))
UniqueText(options) ==
    LET ts == OptionTexts(options, << <<"map", "map">>, <<"sort_order", "sort">>,
                                      <<"length", "length">>, <<"clustered", "clustered">> >>)
    IN  <<" ", "@", "unique">> \o
        (IF ts = <<>> THEN <<>> ELSE <<"(">> \o JoinTexts(ts) \o <<")">>)

\* The unique attribute is rendered with exactly the options of the table.
UniqueAsInTable ==
    IF dml_field.name \in DOMAIN uniques
    THEN /\ Count(Rendered, "unique") = 1
         /\ Contains(Rendered, UniqueText(uniques[dml_field.name]))
         /\ LET u == FieldAttributeRender(Unwrap(Unwrap(out).unique))
            IN  Len(u) + 1 = Len(UniqueText(uniques[dml_field.name]))
    ELSE Count(Rendered, "unique") = 0

\* C6 as stated: a model field of any kind whose name is a key of the uniques
\* table renders `@unique` with exactly the options of the table, and a field
\* whose name is no key renders no `@unique`.
C6_UniqueFromTable == IsSome(out) => UniqueAsInTable

\* C6 amended: that holds of the scalar fields; a relation or composite field
\* never renders `@unique`, whether or not its name is a key of the table.
C6_UniqueFromTableScalarOnly ==
    IsSome(out) =>
        IF dml_field.kind = "ScalarField"
        THEN UniqueAsInTable
        ELSE Unwrap(out).unique = None /\ Count(Rendered, "unique") = 0

\* A scalar field whose name is a key with all four options was converted.
C6_Witness ==
    /\ IsSome(out)
    /\ dml_field.kind = "ScalarField"
    /\ dml_field.name \in DOMAIN uniques
    /\ IsSome(uniques[dml_field.name].clustered)
    /\ IsSome(uniques[dml_field.name].map)

\* C10: the identity definition is attached, and rendered, only on a scalar
\* field; a relation or composite field never has its id slot populated.
C10_IdOnlyOnScalar ==
    IsSome(out) =>
        IF dml_field.kind = "ScalarField"
        THEN /\ Unwrap(out).id = id_arg
             /\ Count(Rendered, "id") = (IF IsSome(id_arg) THEN 1 ELSE 0)
        ELSE /\ Unwrap(out).id = None
             /\ Count(Rendered, "id") = 0

\* A relation field was converted with an identity definition supplied.
C10_Witness ==
    /\ IsSome(out)
    /\ dml_field.kind = "RelationField"
    /\ IsSome(id_arg)

(***************************************************************************)
(* Properties of the type block.                                           *)
(***************************************************************************)
\* C3: the documentation of a type block keeps the lines of every
\* documentation call, in call order, rendered before the `type` line.
C3_TypeDocumentationAppends ==
    /\ ct.documentation = (IF ctDocLog = <<>> THEN None ELSE Some(ctDocLog))
    /\ SubSeq(CompositeType_fmt(ct), 1, 3 * Len(ctDocLog) + 1)
            = DocumentationRender(ctDocLog) \o <<"type ">>

\* C9: the raw rendering is the documentation, the line `type <Name> {`,
\* every pushed field once, in push order, each followed by a newline, and
\* `}` with a newline.
C9_FieldsInPushOrder ==
    LET docs == IF IsSome(ct.documentation)
                THEN DocumentationRender(Unwrap(ct.documentation)) ELSE <<>>
    IN  /\ CompositeType_fmt(ct) =
                docs \o <<"type ", ct.name, " {", "\n">> \o fmt_fields(pushLog)
                     \o <<"}", "\n">>
        /\ Count(CompositeType_fmt(ct), "\n") = Len(docs) \div 3 + Len(pushLog) + 2
        /\ Len(ct.fields) = Len(pushLog)

\* Three fields, not all the same, were pushed to a documented type.
C9_Witness ==
    /\ Len(pushLog) >= 3
    /\ pushLog[1] # pushLog[2]
    /\ IsSome(ct.documentation)

====
